---- MODULE Spec2Model ----
(***************************************************************************)
(* A model of js/modules/k6/http/response.go: the Response entity with its *)
(* lazy JSON accessor (JSON), the HTML accessor (HTML) and the two         *)
(* navigation derivers (SubmitForm, ClickLink).                            *)
(*                                                                         *)
(* Strings are sequences of atoms.  An atom is a single character where    *)
(* the code works on characters (the method attribute that strings.ToUpper *)
(* upper-cases), and otherwise either one delimiter character or a maximal *)
(* run of characters holding no delimiter: "http", ":", "/", "host".       *)
(***************************************************************************)
EXTENDS Integers, Sequences, FiniteSets, TLC

VARIABLES res, calls, parses, last

vars == <<res, calls, parses, last>>

\* The number of accessor and deriver calls a script makes on one Response.
MaxCalls == 3

(***************************************************************************)
(* Host values (goja.Value).  One record shape for all of them, so any two *)
(* can be compared.                                                        *)
(***************************************************************************)
Val(kind, num, str, fields) ==
    [kind |-> kind, num |-> num, str |-> str, fields |-> fields]

\* The Go nil interface: the state of Response.cachedJSON after construction.
Nil == Val("nil", 0, <<>>, {})

\* goja.Undefined()
Undefined == Val("undefined", 0, <<>>, {})

\* goja.Null()
Null == Val("null", 0, <<>>, {})

NumberVal(n) == Val("number", n, <<>>, {})

StringVal(s) == Val("string", 0, s, {})

\* A script object: a set of <<key, value>> pairs, one per key.
ObjectVal(fields) == Val("object", 0, <<>>, fields)

(***************************************************************************)
(* JSON texts.  The atoms of a JSON text are the punctuation marks, the    *)
(* number literals and the string literals (written without their quotes). *)
(***************************************************************************)
NumberLits == {"1", "2"}

\* The literal null.
NullLit == "null"

StringLits == {"a", "b", "c"}

NumberOf(tok) == IF tok = "1" THEN 1 ELSE 2

IsScalarTok(tok) == tok \in NumberLits \/ tok \in StringLits \/ tok = NullLit

\* The Go value of a scalar literal, as the script sees it: ToValue turns the
\* nil that null decodes to into goja.Null().
ScalarVal(tok) ==
    IF tok \in NumberLits THEN NumberVal(NumberOf(tok))
    ELSE IF tok = NullLit THEN Null
    ELSE StringVal(<<tok>>)

\* The members of an object text from atom i on: key ":" scalar, then "," and
\* another member, or the closing brace as the text's last atom.
RECURSIVE ValidMembers(_, _)
ValidMembers(b, i) ==
    /\ i + 3 <= Len(b)
    /\ b[i] \in StringLits
    /\ b[i + 1] = ":"
    /\ IsScalarTok(b[i + 2])
    /\ \/ b[i + 3] = "}" /\ i + 3 = Len(b)
       \/ b[i + 3] = "," /\ ValidMembers(b, i + 4)

\* gjson.ValidBytes: whether the whole text is one JSON value.
ValidBytes(b) ==
    \/ Len(b) = 1 /\ IsScalarTok(b[1])
    \/ Len(b) = 2 /\ b[1] = "{" /\ b[2] = "}"
    \/ Len(b) > 2 /\ b[1] = "{" /\ ValidMembers(b, 2)

\* gjson.GetBytes: the value at a one-key path.  gjson does not validate: it
\* scans the object for the first member with that key and returns the value
\* that follows, whether or not the text is complete (result.Exists() is
\* FALSE when there is none).
GetBytes(b, path) ==
    LET hits == {i \in 2..(Len(b) - 2) :
                    /\ i % 4 = 2
                    /\ b[i] = path
                    /\ b[i + 1] = ":"
                    /\ IsScalarTok(b[i + 2])}
    IN  IF Len(b) > 0 /\ b[1] = "{" /\ hits # {}
        THEN [exists |-> TRUE,
              value |-> ScalarVal(b[(CHOOSE i \in hits : \A j \in hits : i <= j) + 2])]
        ELSE [exists |-> FALSE, value |-> Undefined]

\* encoding/json's object decoding from atom i on, into the map so far: a
\* later member with the same key replaces the earlier one.
RECURSIVE DecodeMembers(_, _, _)
DecodeMembers(b, i, m) ==
    IF i + 3 > Len(b) \/ b[i] \notin StringLits \/ b[i + 1] # ":"
          \/ ~IsScalarTok(b[i + 2])
    THEN [err |-> TRUE, v |-> Nil]
    ELSE LET m2 == {p \in m : p[1] # <<b[i]>>} \cup {<<(<<b[i]>>), ScalarVal(b[i + 2])>>}
         IN  IF b[i + 3] = "}"
             THEN IF i + 3 = Len(b) THEN [err |-> FALSE, v |-> ObjectVal(m2)]
                                    ELSE [err |-> TRUE, v |-> Nil]
             ELSE IF b[i + 3] = ","
                  THEN DecodeMembers(b, i + 4, m2)
                  ELSE [err |-> TRUE, v |-> Nil]

\* json.Unmarshal(body, &v) followed by ToValue(v): err on a syntax error.
Unmarshal(b) ==
    IF Len(b) = 0 THEN [err |-> TRUE, v |-> Nil]
    ELSE IF b[1] = "{"
         THEN IF Len(b) >= 2 /\ b[2] = "}"
              THEN IF Len(b) = 2 THEN [err |-> FALSE, v |-> ObjectVal({})]
                                 ELSE [err |-> TRUE, v |-> Nil]
              ELSE DecodeMembers(b, 2, {})
         ELSE IF Len(b) = 1 /\ IsScalarTok(b[1])
              THEN [err |-> FALSE, v |-> ScalarVal(b[1])]
              ELSE [err |-> TRUE, v |-> Nil]

(***************************************************************************)
(* The Response entity and the outcome of a call on it.                    *)
(***************************************************************************)
\* A Response as the executor constructs it: nothing parsed, nothing validated.
NewResponse(url, body) ==
    [URL |-> url, Body |-> body, cachedJSON |-> Nil, validatedJSON |-> FALSE]

\* The body kinds the accessors accept (the type switch's []byte and string cases).
BodyTypes == {"bytes", "string"}

NoRequests == <<>>

\* A call that returns `value`, leaving the Response as r.
Return(r, value, parsed) ==
    [res |-> r, parsed |-> parsed, kind |-> "return", err |-> "",
     value |-> value, requests |-> NoRequests, issued |-> ""]

\* common.Throw: the call ends here with a script exception and the Response as r.
Throw(r, err, parsed) ==
    [res |-> r, parsed |-> parsed, kind |-> "throw", err |-> err,
     value |-> Undefined, requests |-> NoRequests, issued |-> ""]

(***************************************************************************)
(* Response.JSON                                                           *)
(***************************************************************************)
\* CacheMiss with the cache never consulted: every call looks at the body.
CacheMissAlways(r, hasSelector) == TRUE

\* CacheMiss without the selector test: a set cache answers every call.
CacheMissIgnoresSelector(r, hasSelector) == r.cachedJSON = Nil

\* The condition under which JSON looks at the body at all.
CacheMiss(r, hasSelector) == r.cachedJSON = Nil \/ hasSelector

\* SelectorRejects with the validation left out.
SelectorRejectsNever(r, body) == FALSE

\* A selector call on a body not validated before, which gjson finds invalid.
SelectorRejects(r, body) == ~r.validatedJSON /\ ~ValidBytes(body)

\* The selector branch: validate once, then query the raw bytes.
JSONSelector(r, body, path) ==
    IF SelectorRejects(r, body)
    THEN Return(r, Undefined, 0)
    ELSE LET r2 == [r EXCEPT !.validatedJSON = TRUE]
             result == GetBytes(body, path)
         IN  IF ~result.exists
             THEN Return(r2, Undefined, 0)
             ELSE Return(r2, result.value, 0)

\* The full-parse branch: json.Unmarshal, then mark validated and cache.
JSONFull(r, body) ==
    LET u == Unmarshal(body)
    IN  IF u.err
        THEN Throw(r, "MalformedJSON", 1)
        ELSE LET r2 == [r EXCEPT !.validatedJSON = TRUE, !.cachedJSON = u.v]
             IN  Return(r2, r2.cachedJSON, 1)

\* res.JSON(selector...): `parsed` counts the json.Unmarshal calls it made.
JSONCall(r, selector) ==
    LET hasSelector == Len(selector) > 0
    IN  IF CacheMiss(r, hasSelector)
        THEN IF r.Body.type \notin BodyTypes
             THEN Throw(r, "InvalidBodyType", 0)
             ELSE IF hasSelector
                  THEN JSONSelector(r, r.Body.data, selector[1])
                  ELSE JSONFull(r, r.Body.data)
        ELSE Return(r, r.cachedJSON, 0)

(***************************************************************************)
(* String helpers (package strings) on sequences of atoms.                 *)
(***************************************************************************)
\* strings.Index: the first position of atom a in s, 0 when there is none.
Index(s, a) ==
    IF \E i \in 1..Len(s) : s[i] = a
    THEN CHOOSE i \in 1..Len(s) : s[i] = a /\ \A j \in 1..(i - 1) : s[j] # a
    ELSE 0

\* strings.LastIndex: the last position of atom a in s, 0 when there is none.
LastIndex(s, a) ==
    IF \E i \in 1..Len(s) : s[i] = a
    THEN CHOOSE i \in 1..Len(s) : s[i] = a /\ \A j \in (i + 1)..Len(s) : s[j] # a
    ELSE 0

\* The atoms of s before position i, and those after it.
Before(s, i) == SubSeq(s, 1, i - 1)

After(s, i) == SubSeq(s, i + 1, Len(s))

\* strings.Split(s, a): the runs of s between the occurrences of a.
RECURSIVE Split(_, _)
Split(s, a) ==
    LET i == Index(s, a)
    IN  IF i = 0 THEN <<s>> ELSE <<Before(s, i)>> \o Split(After(s, i), a)

\* strings.Join(parts, a)
RECURSIVE Join(_, _)
Join(parts, a) ==
    IF Len(parts) = 0 THEN <<>>
    ELSE IF Len(parts) = 1 THEN parts[1]
    ELSE parts[1] \o <<a>> \o Join(Tail(parts), a)

\* strings.ToUpper on the characters that occur in method attributes.
UpperChar(c) ==
    CASE c = "g" -> "G" [] c = "e" -> "E" [] c = "t" -> "T"
      [] c = "p" -> "P" [] c = "o" -> "O" [] c = "s" -> "S"
      [] OTHER -> c

ToUpper(s) == [i \in 1..Len(s) |-> UpperChar(s[i])]

(***************************************************************************)
(* net/url.  A URL is the record url.URL with the fields the code reaches; *)
(* every component is a sequence of atoms.  The atoms used in URLs hold no *)
(* character that escaping would change, except the atom "%zz", an invalid *)
(* percent escape, so EscapedPath is the path itself.                      *)
(***************************************************************************)
EmptyURL ==
    [Scheme |-> <<>>, Opaque |-> <<>>, Host |-> <<>>, Path |-> <<>>,
     RawQuery |-> <<>>, ForceQuery |-> FALSE, Fragment |-> <<>>]

\* The atoms made of letters only: the ones getScheme accepts before a ":".
SchemeWords == {"http", "https", "host", "a", "b", "c", "form", "submit", "q", "x"}

\* An invalid percent escape: unescape fails on it.
BadEscape == "%zz"

HasBadEscape(s) == \E i \in 1..Len(s) : s[i] = BadEscape

ParseError == [err |-> TRUE, url |-> EmptyURL]

ParseOK(u) == [err |-> FALSE, url |-> u]

\* The tail of url.parse after the scheme and the query are taken off `rest`.
ParseRest(u, rest) ==
    IF (Len(rest) = 0 \/ rest[1] # "/") /\ u.Scheme # <<>>
    THEN \* a rootless path after a scheme is opaque
         ParseOK([u EXCEPT !.Opaque = rest])
    ELSE IF (Len(rest) = 0 \/ rest[1] # "/")
            /\ Index(Split(rest, "/")[1], ":") # 0
    THEN \* first path segment in URL cannot contain colon
         ParseError
    ELSE IF Len(rest) >= 2 /\ rest[1] = "/" /\ rest[2] = "/"
            /\ (u.Scheme # <<>> \/ ~(Len(rest) >= 3 /\ rest[3] = "/"))
    THEN LET authority == SubSeq(rest, 3, Len(rest))
             i == Index(authority, "/")
             host == IF i = 0 THEN authority ELSE Before(authority, i)
             path == IF i = 0 THEN <<>> ELSE SubSeq(authority, i, Len(authority))
         IN  IF HasBadEscape(host) \/ HasBadEscape(path)
             THEN ParseError
             ELSE ParseOK([u EXCEPT !.Host = host, !.Path = path])
    ELSE IF HasBadEscape(rest)
         THEN ParseError
         ELSE ParseOK([u EXCEPT !.Path = rest])

\* url.parse(rawURL, false): scheme, query, then authority and path.
ParseNoFragment(raw) ==
    IF Len(raw) >= 1 /\ raw[1] = ":"
    THEN \* missing protocol scheme
         ParseError
    ELSE LET hasScheme == Len(raw) >= 2 /\ raw[1] \in SchemeWords /\ raw[2] = ":"
             scheme == IF hasScheme THEN <<raw[1]>> ELSE <<>>
             rest == IF hasScheme THEN SubSeq(raw, 3, Len(raw)) ELSE raw
             q == Index(rest, "?")
             force == q # 0 /\ q = Len(rest)
             query == IF q = 0 THEN <<>> ELSE After(rest, q)
             rest2 == IF q = 0 THEN rest ELSE Before(rest, q)
         IN  ParseRest([EmptyURL EXCEPT !.Scheme = scheme, !.RawQuery = query,
                                        !.ForceQuery = force], rest2)

\* url.Parse: the fragment is cut off first and unescaped last.
Parse(raw) ==
    LET h == Index(raw, "#")
        u == IF h = 0 THEN raw ELSE Before(raw, h)
        frag == IF h = 0 THEN <<>> ELSE After(raw, h)
        p == ParseNoFragment(u)
    IN  IF p.err THEN ParseError
        ELSE IF HasBadEscape(frag) THEN ParseError
        ELSE ParseOK([p.url EXCEPT !.Fragment = frag])

\* (*URL).String
String(u) ==
    LET scheme == IF u.Scheme # <<>> THEN u.Scheme \o <<":">> ELSE <<>>
        slashes == IF (u.Scheme # <<>> \/ u.Host # <<>>)
                      /\ (u.Host # <<>> \/ u.Path # <<>>)
                   THEN <<"/", "/">> ELSE <<>>
        authority == IF u.Scheme # <<>> \/ u.Host # <<>>
                     THEN slashes \o u.Host ELSE <<>>
        lead == IF u.Path # <<>> /\ u.Path[1] # "/" /\ u.Host # <<>>
                THEN <<"/">> ELSE <<>>
        dot == IF scheme = <<>> /\ authority = <<>> /\ lead = <<>>
                  /\ Index(Split(u.Path, "/")[1], ":") # 0
               THEN <<".", "/">> ELSE <<>>
        hier == IF u.Opaque # <<>> THEN u.Opaque
                ELSE authority \o lead \o dot \o u.Path
        query == IF u.ForceQuery \/ u.RawQuery # <<>>
                 THEN <<"?">> \o u.RawQuery ELSE <<>>
        frag == IF u.Fragment # <<>> THEN <<"#">> \o u.Fragment ELSE <<>>
    IN  scheme \o hier \o query \o frag

\* The loop of resolvePath: "." is dropped, ".." drops the last kept segment.
RECURSIVE RemoveDots(_, _)
RemoveDots(src, dst) ==
    IF Len(src) = 0 THEN dst
    ELSE LET elem == Head(src)
         IN  IF elem = <<".">> THEN RemoveDots(Tail(src), dst)
             ELSE IF elem = <<"..">>
                  THEN RemoveDots(Tail(src),
                                  IF Len(dst) > 0 THEN SubSeq(dst, 1, Len(dst) - 1) ELSE dst)
                  ELSE RemoveDots(Tail(src), Append(dst, elem))

\* strings.TrimPrefix(s, "/")
TrimSlash(s) == IF Len(s) > 0 /\ s[1] = "/" THEN Tail(s) ELSE s

\* url.resolvePath(base, ref)
ResolvePath(base, ref) ==
    LET full == IF ref = <<>> THEN base
                ELSE IF ref[1] # "/"
                     THEN SubSeq(base, 1, LastIndex(base, "/")) \o ref
                     ELSE ref
    IN  IF full = <<>> THEN <<>>
        ELSE LET src == Split(full, "/")
                 kept == RemoveDots(src, <<>>)
                 lastElem == src[Len(src)]
                 dst == IF lastElem = <<".">> \/ lastElem = <<"..">>
                        THEN Append(kept, <<>>) ELSE kept
             IN  <<"/">> \o TrimSlash(Join(dst, "/"))

\* (*URL).ResolveReference
ResolveReference(u, ref) ==
    LET url == IF ref.Scheme = <<>> THEN [ref EXCEPT !.Scheme = u.Scheme] ELSE ref
    IN  IF ref.Scheme # <<>> \/ ref.Host # <<>>
        THEN [url EXCEPT !.Path = ResolvePath(ref.Path, <<>>)]
        ELSE IF ref.Opaque # <<>>
        THEN [url EXCEPT !.Host = <<>>, !.Path = <<>>]
        ELSE LET url2 == IF ref.Path = <<>> /\ ref.RawQuery = <<>>
                         THEN [url EXCEPT !.RawQuery = u.RawQuery,
                                          !.Fragment = IF ref.Fragment = <<>>
                                                       THEN u.Fragment
                                                       ELSE ref.Fragment]
                         ELSE url
             IN  [url2 EXCEPT !.Host = u.Host, !.Path = ResolvePath(u.Path, ref.Path)]

(***************************************************************************)
(* The HTML engine (package js/modules/k6/html).  A markup text is a       *)
(* sequence of atoms, one per tag; a node is the tag's name and its        *)
(* attributes, a set of <<name, value>> pairs.                             *)
(***************************************************************************)
Attrs1(n1, v1) == {<<n1, v1>>}

Attrs2(n1, v1, n2, v2) == {<<n1, v1>>, <<n2, v2>>}

Attrs3(n1, v1, n2, v2, n3, v3) == {<<n1, v1>>, <<n2, v2>>, <<n3, v3>>}

Node(tag, attrs) == [tag |-> tag, attrs |-> attrs]

\* What the tokenizer makes of one tag atom; any other atom is text.
TagNode(atom) ==
    CASE atom = "<form id=f1 method=post action=/submit>" ->
            Node("form", Attrs3("id", <<"f1">>, "method", <<"p", "o", "s", "t">>,
                                "action", <<"/", "submit">>))
      [] atom = "<form id=f2>" ->
            Node("form", Attrs1("id", <<"f2">>))
      [] atom = "<form id=f3 method=Get action=/search?q=1>" ->
            Node("form", Attrs3("id", <<"f3">>, "method", <<"G", "e", "t">>,
                                "action", <<"/", "search", "?", "q", "=", "1">>))
      [] atom = "<form id=f4 method=post action=>" ->
            Node("form", Attrs3("id", <<"f4">>, "method", <<"p", "o", "s", "t">>,
                                "action", <<>>))
      [] atom = "<form id=f5 method=post action=%zz>" ->
            Node("form", Attrs3("id", <<"f5">>, "method", <<"p", "o", "s", "t">>,
                                "action", <<"%zz">>))
      [] atom = "<form id=f6 method=>" ->
            Node("form", Attrs2("id", <<"f6">>, "method", <<>>))
      [] atom = "</form>" -> Node("/form", {})
      [] atom = "<input name=x value=1>" ->
            Node("input", Attrs2("name", <<"x">>, "value", <<"1">>))
      [] atom = "<input name=y value='a b'>" ->
            Node("input", Attrs2("name", <<"y">>, "value", <<"a", " ", "b">>))
      [] atom = "<input name=y value=2 disabled>" ->
            Node("input", Attrs3("name", <<"y">>, "value", <<"2">>,
                                 "disabled", <<"disabled">>))
      [] atom = "<input type=submit name=btn value=go>" ->
            Node("input", Attrs3("type", <<"submit">>, "name", <<"btn">>,
                                 "value", <<"go">>))
      [] atom = "<input type=submit name=x value=go>" ->
            Node("input", Attrs3("type", <<"submit">>, "name", <<"x">>,
                                 "value", <<"go">>))
      [] atom = "<button type=submit name=btn>" ->
            Node("button", Attrs2("type", <<"submit">>, "name", <<"btn">>))
      [] atom = "<a id=l1 href=../c>" ->
            Node("a", Attrs2("id", <<"l1">>, "href", <<"..", "/", "c">>))
      [] atom = "<a id=l2>" ->
            Node("a", Attrs1("id", <<"l2">>))
      [] atom = "<a id=l3 href=:bad>" ->
            Node("a", Attrs2("id", <<"l3">>, "href", <<":", "bad">>))
      [] atom = "<a id=l4 href=?p=2>" ->
            Node("a", Attrs2("id", <<"l4">>, "href", <<"?", "p", "=", "2">>))
      [] OTHER -> Node("#text", {})

\* The tokenizer loop from atom i on: `open` is the form opened and not yet
\* closed (0 when there is none), which becomes the parent of the nodes in it.
RECURSIVE ParseFrom(_, _, _, _)
ParseFrom(text, i, open, doc) ==
    IF i > Len(text) THEN doc
    ELSE LET n == TagNode(text[i])
             node == [tag |-> n.tag, attrs |-> n.attrs, parent |-> open]
         IN  ParseFrom(text, i + 1,
                       IF n.tag = "form" THEN i ELSE IF n.tag = "/form" THEN 0 ELSE open,
                       Append(doc, node))

\* html.HTML{}.ParseHTML: the document's nodes in document order.
ParseHTML(text) == ParseFrom(text, 1, 0, <<>>)

\* A Selection: the document, the selected nodes (0 is the document itself,
\* the others in document order) and the base URL.
Selection(doc, idx, url) == [doc |-> doc, idx |-> idx, URL |-> url]

HasAttr(node, name) == \E p \in node.attrs : p[1] = name

AttrOf(node, name) == (CHOOSE p \in node.attrs : p[1] = name)[2]

\* The selectors by id that scripts use here.
IdSelectors == {"#f1", "#f2", "#f3", "#f4", "#f5", "#f6", "#l1", "#l2", "#l3", "#l4"}

\* Whether a node matches a selector, for the selectors scripts use here.
Matches(selector, node) ==
    CASE selector = "form" -> node.tag = "form"
      [] selector = "input" -> node.tag = "input"
      [] selector = "a" -> node.tag = "a"
      [] selector = "a[href]" -> node.tag = "a" /\ HasAttr(node, "href")
      [] selector = "[type=\"submit\"]" ->
            HasAttr(node, "type") /\ AttrOf(node, "type") = <<"submit">>
      [] selector \in IdSelectors ->
            HasAttr(node, "id") /\ "#" \o AttrOf(node, "id")[1] = selector
      [] OTHER -> FALSE

\* The increasing sequence of the numbers in set S.
RECURSIVE Sorted(_)
Sorted(S) ==
    IF S = {} THEN <<>>
    ELSE LET m == CHOOSE x \in S : \A y \in S : x <= y
         IN  <<m>> \o Sorted(S \ {m})

\* Selection.Find: the descendants of the selected nodes that match.
Find(sel, selector) ==
    Selection(sel.doc,
              Sorted({i \in 1..Len(sel.doc) :
                        /\ Matches(selector, sel.doc[i])
                        /\ \E k \in 1..Len(sel.idx) :
                              sel.idx[k] = 0 \/ sel.doc[i].parent = sel.idx[k]}),
              sel.URL)

\* Selection.Size
Size(sel) == Len(sel.idx)

\* Selection.Attr: the attribute of the first selected node, undefined when
\* nothing is selected or the node has no such attribute.
Attr(sel, name) ==
    IF Size(sel) = 0 \/ sel.idx[1] = 0 THEN Undefined
    ELSE IF HasAttr(sel.doc[sel.idx[1]], name)
         THEN StringVal(AttrOf(sel.doc[sel.idx[1]], name))
         ELSE Undefined

\* Selection.Val: the value attribute of a form control.
SelVal(sel) ==
    IF Size(sel) = 0 \/ sel.idx[1] = 0 THEN Undefined
    ELSE IF sel.doc[sel.idx[1]].tag \in {"input", "button"}
         THEN Attr(sel, "value")
         ELSE Undefined

\* m with key k bound to v (a Go map assignment m[k] = v).
Put(m, k, v) == {p \in m : p[1] # k} \cup {<<k, v>>}

HasKey(m, k) == \E p \in m : p[1] = k

Get(m, k) == (CHOOSE p \in m : p[1] = k)[2]

Keys(m) == {p[1] : p \in m}

\* Whether a control is serialized: named, enabled and no submit button.
Submittable(node) ==
    /\ node.tag = "input"
    /\ HasAttr(node, "name") /\ AttrOf(node, "name") # <<>>
    /\ ~HasAttr(node, "disabled")
    /\ ~(HasAttr(node, "type") /\ AttrOf(node, "type") = <<"submit">>)

RECURSIVE SerializeFrom(_, _, _)
SerializeFrom(doc, idx, m) ==
    IF Len(idx) = 0 THEN m
    ELSE LET node == doc[Head(idx)]
             v == IF HasAttr(node, "value") THEN AttrOf(node, "value") ELSE <<>>
         IN  SerializeFrom(doc, Tail(idx), Put(m, AttrOf(node, "name"), StringVal(v)))

\* Selection.SerializeObject: name -> value of the selected forms' controls,
\* a later control replacing an earlier one of the same name.
SerializeObject(form) ==
    IF Size(form) = 0 THEN {}
    ELSE SerializeFrom(form.doc,
                       Sorted({i \in 1..Len(form.doc) :
                                 /\ \E k \in 1..Len(form.idx) :
                                       form.doc[i].parent = form.idx[k]
                                 /\ Submittable(form.doc[i])}),
                       {})

(***************************************************************************)
(* Response.HTML                                                           *)
(***************************************************************************)
\* res.HTML(selector...): err is the exception thrown, "" when none is.
HTMLCall(r, selector) ==
    IF r.Body.type \notin BodyTypes
    THEN [err |-> "InvalidBodyType", sel |-> Selection(<<>>, <<>>, r.URL)]
    ELSE LET sel == Selection(ParseHTML(r.Body.data), <<0>>, r.URL)
         IN  [err |-> "",
              sel |-> IF Len(selector) > 0 THEN Find(sel, selector[1]) ELSE sel]

(***************************************************************************)
(* Call arguments and the request issuer.                                  *)
(***************************************************************************)
\* The option object of SubmitForm and ClickLink: `has` holds its keys.
Opts(has, formSelector, submitSelector, fields, params, selector) ==
    [has |-> has, formSelector |-> formSelector, submitSelector |-> submitSelector,
     fields |-> fields, params |-> params, selector |-> selector]

\* The value of the option "fields": `exportable` tells whether rt.ExportTo
\* can turn it into a map of values, `pairs` is that map.
Fields(pairs) == [exportable |-> TRUE, pairs |-> pairs]

NotAMap == [exportable |-> FALSE, pairs |-> {}]

\* rt.ExportTo(params.Get(k), &fields), and fields = nil when it fails.
ExportFields(f) == IF f.exportable THEN f.pairs ELSE {}

\* params.Get(key) when the object has the key, the default otherwise.
Option(args, key, default) ==
    IF Len(args) > 0 /\ key \in args[1].has THEN args[1][key] ELSE default

\* HTTP_METHOD_GET
HTTP_METHOD_GET == <<"G", "E", "T">>

\* One call of the request issuer: New().Request(ctx, method, url, body, params).
Request(method, url, body, params) ==
    [method |-> method, url |-> url, body |-> body, params |-> params]

\* New().Get(ctx, url, params): a GET request without a body.
HttpGet(url, params) == Request(HTTP_METHOD_GET, url, Undefined, params)

\* Issue with one retry of a request the issuer fails.
IssueWithRetry(r, req, out) ==
    [res |-> r, parsed |-> 0, kind |-> "issued", err |-> "", value |-> Undefined,
     requests |-> IF out = "RequestIssueFailure" THEN <<req, req>> ELSE <<req>>,
     issued |-> out]

\* The deriver hands req to the issuer and returns what the issuer produced.
Issue(r, req, out) ==
    [res |-> r, parsed |-> 0, kind |-> "issued", err |-> "", value |-> Undefined,
     requests |-> <<req>>, issued |-> out]

(***************************************************************************)
(* Response.SubmitForm                                                     *)
(***************************************************************************)
\* goja's Value.String() for the values that reach a form mapping.
ValueString(v) ==
    CASE v.kind = "string" -> v.str
      [] v.kind = "number" -> <<CASE v.num = 1 -> "1" [] v.num = 2 -> "2" [] OTHER -> "9">>
      [] v.kind = "null" -> <<"null">>
      [] OTHER -> <<"undefined">>

\* url.QueryEscape: a space becomes "+"; the other atoms used need no escape.
QueryEscape(s) == [i \in 1..Len(s) |-> IF s[i] = " " THEN "+" ELSE s[i]]

\* The field names in the order url.Values.Encode sorts them.
KeyOrder == <<(<<"btn">>), (<<"x">>), (<<"y">>), (<<"z">>)>>

RECURSIVE EncodeFrom(_, _)
EncodeFrom(values, i) ==
    IF i > Len(KeyOrder) THEN <<>>
    ELSE IF ~HasKey(values, KeyOrder[i]) THEN EncodeFrom(values, i + 1)
    ELSE <<QueryEscape(KeyOrder[i]) \o <<"=">>
              \o QueryEscape(ValueString(Get(values, KeyOrder[i])))>>
         \o EncodeFrom(values, i + 1)

\* q.Add(k, v.String()) for every pair, then q.Encode().
Encode(values) == Join(EncodeFrom(values, 1), "&")

\* SubmitFormCheck with the response URL parsed before the form is looked at.
SubmitFormCheckURLFirst(r, form) ==
    IF Parse(r.URL).err THEN "MalformedURL"
    ELSE IF Size(form) = 0 THEN "FormNotFound"
    ELSE IF Attr(form, "action") # Undefined /\ Parse(Attr(form, "action").str).err
         THEN "MalformedURL"
         ELSE ""

\* The checks of SubmitForm on the selected form, in the order the code makes
\* them: the error of the first that fails, "" when all pass.
SubmitFormCheck(r, form) ==
    IF Size(form) = 0 THEN "FormNotFound"
    ELSE IF Parse(r.URL).err THEN "MalformedURL"
    ELSE IF Attr(form, "action") # Undefined /\ Parse(Attr(form, "action").str).err
         THEN "MalformedURL"
         ELSE ""

\* requestMethod: GET by default, the method attribute upper-cased otherwise.
RequestMethod(methodAttr) ==
    IF methodAttr = Undefined THEN HTTP_METHOD_GET ELSE ToUpper(methodAttr.str)

\* RequestURL with an empty action treated as no action.
RequestURLSkipsEmptyAction(responseURL, actionAttr) ==
    IF actionAttr = Undefined \/ actionAttr.str = <<>>
    THEN responseURL
    ELSE ResolveReference(responseURL, Parse(actionAttr.str).url)

\* requestURL: the response URL when the form has no action attribute, the
\* action resolved against it otherwise.
RequestURL(responseURL, actionAttr) ==
    IF actionAttr = Undefined
    THEN responseURL
    ELSE ResolveReference(responseURL, Parse(actionAttr.str).url)

\* FormLayers with the caller's fields put in before the submit control.
FormLayersFieldsFirst(values, submitName, submitValue, fields) ==
    LET overridden == {p \in values : ~HasKey(fields, p[1])} \cup fields
    IN  IF submitName # Undefined /\ submitValue # Undefined
        THEN Put(overridden, ValueString(submitName), submitValue)
        ELSE overridden

\* values after the submit control's pair and the caller's fields are put in.
FormLayers(values, submitName, submitValue, fields) ==
    LET withSubmit == IF submitName # Undefined /\ submitValue # Undefined
                      THEN Put(values, ValueString(submitName), submitValue)
                      ELSE values
    IN  {p \in withSubmit : ~HasKey(fields, p[1])} \cup fields

\* The mapping SubmitForm sends.
FormValues(form, submitSelector, fields) ==
    LET submit == Find(form, submitSelector)
    IN  FormLayers(SerializeObject(form), Attr(submit, "name"), SelVal(submit), fields)

\* GetRequest with the mapping appended to the query the target has.
GetRequestAppendsQuery(requestURL, values, params) ==
    Request(HTTP_METHOD_GET,
            String([requestURL EXCEPT !.RawQuery =
                        IF requestURL.RawQuery = <<>> THEN Encode(values)
                        ELSE requestURL.RawQuery \o <<"&">> \o Encode(values)]),
            Null, params)

\* The request of a GET form: the mapping replaces the query, no body.
GetRequest(requestURL, values, params) ==
    Request(HTTP_METHOD_GET, String([requestURL EXCEPT !.RawQuery = Encode(values)]),
            Null, params)

\* The request of any other form: the mapping is the body.
BodyRequest(requestMethod, requestURL, values, params) ==
    Request(requestMethod, String(requestURL), ObjectVal(values), params)

\* res.SubmitForm(args...), the issuer answering `out`.
SubmitFormCall(r, args, out) ==
    LET formSelector == Option(args, "formSelector", "form")
        submitSelector == Option(args, "submitSelector", "[type=\"submit\"]")
        fields == ExportFields(Option(args, "fields", Fields({})))
        requestParams == Option(args, "params", Null)
        h == HTMLCall(r, <<formSelector>>)
        form == h.sel
    IN  IF h.err # "" THEN Throw(r, h.err, 0)
        ELSE IF SubmitFormCheck(r, form) # "" THEN Throw(r, SubmitFormCheck(r, form), 0)
        ELSE LET requestMethod == RequestMethod(Attr(form, "method"))
                 requestURL == RequestURL(Parse(r.URL).url, Attr(form, "action"))
                 values == FormValues(form, submitSelector, fields)
             IN  IF requestMethod = HTTP_METHOD_GET
                 THEN Issue(r, GetRequest(requestURL, values, requestParams), out)
                 ELSE Issue(r, BodyRequest(requestMethod, requestURL, values,
                                           requestParams), out)

(***************************************************************************)
(* Response.ClickLink                                                      *)
(***************************************************************************)
\* ClickLinkCheck with the href read before the match is counted.
ClickLinkCheckHrefFirst(r, h) ==
    IF Parse(r.URL).err THEN "MalformedURL"
    ELSE IF h.err # "" THEN h.err
    ELSE IF Attr(h.sel, "href") = Undefined THEN "MissingHrefAttribute"
    ELSE IF Size(h.sel) = 0 THEN "ElementNotFound"
    ELSE IF Parse(Attr(h.sel, "href").str).err THEN "MalformedURL"
    ELSE ""

\* The checks of ClickLink, h being the outcome of res.HTML(selector), in the
\* order the code makes them: the error of the first that fails, "" when all pass.
ClickLinkCheck(r, h) ==
    IF Parse(r.URL).err THEN "MalformedURL"
    ELSE IF h.err # "" THEN h.err
    ELSE IF Size(h.sel) = 0 THEN "ElementNotFound"
    ELSE IF Attr(h.sel, "href") = Undefined THEN "MissingHrefAttribute"
    ELSE IF Parse(Attr(h.sel, "href").str).err THEN "MalformedURL"
    ELSE ""

\* LinkRequest with the href requested as written.
LinkRequestUnresolved(responseURL, hrefAttr, params) ==
    HttpGet(String(Parse(hrefAttr.str).url), params)

\* The request of a followed link: GET the href resolved against the response URL.
LinkRequest(responseURL, hrefAttr, params) ==
    HttpGet(String(ResolveReference(responseURL, Parse(hrefAttr.str).url)), params)

\* res.ClickLink(args...), the issuer answering `out`.
ClickLinkCall(r, args, out) ==
    LET selector == Option(args, "selector", "a[href]")
        requestParams == Option(args, "params", Null)
        h == HTMLCall(r, <<selector>>)
    IN  IF ClickLinkCheck(r, h) # "" THEN Throw(r, ClickLinkCheck(r, h), 0)
        ELSE Issue(r, LinkRequest(Parse(r.URL).url, Attr(h.sel, "href"), requestParams),
                   out)

(***************************************************************************)
(* The exchanges and the calls the model draws from.                       *)
(***************************************************************************)
URLForm == <<"http", ":", "/", "/", "host", "/", "form">>

URLAB == <<"http", ":", "/", "/", "host", "/", "a", "/", "b">>

URLDots == <<"http", ":", "/", "/", "host", "/", "a", "/", "..", "/", "b", "?", "q", "=", "1">>

URLBad == <<":", "bad">>

URLs == {URLForm, URLAB, URLDots, URLBad}

JSONText == <<"{", "a", ":", "1", ",", "b", ":", "2", "}">>

JSONTruncated == <<"{", "a", ":", "1">>

JSONNull == <<"null">>

Markup ==
    <<"<html>",
      "<form id=f1 method=post action=/submit>", "<input name=x value=1>",
          "<input type=submit name=btn value=go>", "</form>",
      "<form id=f2>", "<input name=x value=1>", "<input name=y value='a b'>",
          "<input type=submit name=x value=go>", "</form>",
      "<form id=f3 method=Get action=/search?q=1>", "<input name=y value=2 disabled>",
          "<input name=x value=1>", "<button type=submit name=btn>", "</form>",
      "<form id=f4 method=post action=>", "<input name=x value=1>", "</form>",
      "<form id=f5 method=post action=%zz>", "</form>",
      "<form id=f6 method=>", "</form>",
      "<a id=l2>", "<a id=l1 href=../c>", "<a id=l3 href=:bad>", "<a id=l4 href=?p=2>">>

Body(type, data) == [type |-> type, data |-> data]

Bodies ==
    {Body("string", JSONText), Body("bytes", JSONNull), Body("bytes", JSONTruncated),
     Body("bytes", Markup), Body("other", <<>>)}

\* The selector arguments of JSON calls: none, a key that exists, one that does not.
JSONArgs == {<<>>, <<"a">>, <<"c">>, <<"c", "a">>}

\* A params value the script hands through to the issuer.
SomeParams == ObjectVal({<<(<<"tag">>), StringVal(<<"a">>)>>})

FormOnly(sel) == Opts({"formSelector"}, sel, "", Fields({}), Null, "")

SubmitFormArgs ==
    {<<>>} \cup
    {<<FormOnly(sel)>> : sel \in {"#f1", "#f2", "#f3", "#f4", "#f5", "#f6", "#none"}} \cup
    {<<Opts({"formSelector", "fields", "params"}, "#f1", "",
            Fields({<<(<<"x">>), NumberVal(9)>>,
                    <<(<<"z">>), StringVal(<<"a", " ", "b">>)>>}),
            SomeParams, "")>>,
     <<Opts({"formSelector", "fields"}, "#f2", "",
            Fields({<<(<<"x">>), StringVal(<<"9">>)>>}), Null, "")>>,
     <<Opts({"formSelector", "fields"}, "#f2", "", NotAMap, Null, "")>>,
     <<Opts({"formSelector", "submitSelector"}, "#f2", "input", Fields({}), Null, "")>>,
     <<Opts({"formSelector", "submitSelector", "fields"}, "#f1", "[type=\"submit\"]",
            Fields({<<(<<"btn">>), StringVal(<<"mine">>)>>}), Null, "")>>,
     <<Opts({"formSelector", "submitSelector", "params"}, "#f3", "#none", Fields({}),
            SomeParams, "")>>}

LinkOnly(sel) == Opts({"selector"}, "", "", Fields({}), Null, sel)

ClickLinkArgs ==
    {<<>>} \cup
    {<<LinkOnly(sel)>> : sel \in {"a", "#l1", "#l2", "#l3", "#l4", "#none"}} \cup
    {<<Opts({"selector", "params"}, "", "", Fields({}), SomeParams, "#l1")>>,
     <<Opts({"params"}, "", "", Fields({}), SomeParams, "")>>}

\* What the request issuer answers: a new Response, or a failure.
IssuerOutcomes == {"Response", "RequestIssueFailure"}

(***************************************************************************)
(* The state machine: one Response, and the script calling its methods.    *)
(* `last` records the most recent call and its outcome, `parses` counts    *)
(* the json.Unmarshal calls made on the Response so far, `calls` the calls *)
(* made on it.                                                             *)
(***************************************************************************)
NoCall ==
    [op |-> "", args |-> <<>>, kind |-> "", err |-> "", value |-> Undefined,
     requests |-> NoRequests, issued |-> "", parsed |-> 0, answered |-> ""]

\* The record of a call: its outcome o, the json.Unmarshal calls it made and,
\* when it reached the issuer, what the issuer answered.
Called(op, args, o, out) ==
    [op |-> op, args |-> args, kind |-> o.kind, err |-> o.err, value |-> o.value,
     requests |-> o.requests, issued |-> o.issued, parsed |-> o.parsed,
     answered |-> IF o.requests = NoRequests THEN "" ELSE out]

Init ==
    /\ res \in {NewResponse(u, b) : u \in URLs, b \in Bodies}
    /\ calls = 0
    /\ parses = 0
    /\ last = NoCall

JSON ==
    \E selector \in JSONArgs :
        LET o == JSONCall(res, selector)
        IN  /\ calls < MaxCalls
            /\ res' = o.res
            /\ parses' = parses + o.parsed
            /\ calls' = calls + 1
            /\ last' = Called("JSON", selector, o, "")

SubmitForm ==
    \E args \in SubmitFormArgs, out \in IssuerOutcomes :
        LET o == SubmitFormCall(res, args, out)
        IN  /\ calls < MaxCalls
            /\ res' = o.res
            /\ parses' = parses + o.parsed
            /\ calls' = calls + 1
            /\ last' = Called("SubmitForm", args, o, out)

ClickLink ==
    \E args \in ClickLinkArgs, out \in IssuerOutcomes :
        LET o == ClickLinkCall(res, args, out)
        IN  /\ calls < MaxCalls
            /\ res' = o.res
            /\ parses' = parses + o.parsed
            /\ calls' = calls + 1
            /\ last' = Called("ClickLink", args, o, out)

Next == JSON \/ SubmitForm \/ ClickLink

Spec == Init /\ [][Next]_vars

(***************************************************************************)
(* Properties of the JSON accessor.                                        *)
(***************************************************************************)
\* A body the accessors accept whose text is one JSON value.
WellFormedJSON(body) == body.type \in BodyTypes /\ ValidBytes(body.data)

\* A body the accessors accept whose text is not JSON.
MalformedJSON(body) == body.type \in BodyTypes /\ ~ValidBytes(body.data)

\* The step is a JSON call without a selector.
FullJSONStep == calls' = calls + 1 /\ last'.op = "JSON" /\ Len(last'.args) = 0

\* The step is a JSON call that carries a selector.
SelectorJSONStep == calls' = calls + 1 /\ last'.op = "JSON" /\ Len(last'.args) > 0

\* What a full parse of the JSON text {"a":1,"b":2} yields.
JSONTextValue ==
    ObjectVal({<<(<<"a">>), NumberVal(1)>>, <<(<<"b">>), NumberVal(2)>>})

\* C1: on a well-formed JSON body the whole body is parsed at most once over
\* any sequence of JSON calls: a no-selector call made while the cache is
\* unset parses once, stores the value and returns it; a no-selector call made
\* once the cache is set returns the stored value and parses nothing; a
\* selector call never runs the full parse.
C1_ParsedAtMostOnce ==
    [][WellFormedJSON(res.Body) =>
          /\ parses' <= 1
          /\ FullJSONStep /\ res.cachedJSON = Nil =>
                /\ parses' = parses + 1
                /\ last'.kind = "return"
                /\ res'.cachedJSON # Nil
                /\ last'.value = res'.cachedJSON
                /\ res.Body.data = JSONText => last'.value = JSONTextValue
                /\ res.Body.data = JSONNull => last'.value = Null
          /\ FullJSONStep /\ res.cachedJSON # Nil =>
                /\ parses' = parses
                /\ last'.kind = "return"
                /\ last'.value = res.cachedJSON
                /\ res'.cachedJSON = res.cachedJSON
          /\ SelectorJSONStep => parses' = parses]_vars

\* A no-selector call served from the cache after an earlier call parsed.
C1_Witness ==
    /\ WellFormedJSON(res.Body)
    /\ last.op = "JSON" /\ Len(last.args) = 0
    /\ last.kind = "return" /\ last.value = JSONTextValue
    /\ last.parsed = 0
    /\ parses = 1

\* C2: on a malformed JSON body, whatever was called before, a selector call
\* returns undefined and does not throw, a no-selector call throws
\* MalformedJSON, and the validity flag and the cache stay unset.
C2_MalformedBody ==
    MalformedJSON(res.Body) =>
        /\ last.op = "JSON" /\ Len(last.args) > 0 =>
              last.kind = "return" /\ last.value = Undefined
        /\ last.op = "JSON" /\ Len(last.args) = 0 =>
              last.kind = "throw" /\ last.err = "MalformedJSON"
        /\ res.validatedJSON = FALSE
        /\ res.cachedJSON = Nil

\* A selector call on the truncated text {"a":1 for the key the text holds,
\* made after a no-selector call has failed on it.
C2_Witness ==
    /\ res.Body.data = JSONTruncated
    /\ last.op = "JSON" /\ last.args = <<"a">>
    /\ last.kind = "return" /\ last.value = Undefined
    /\ parses >= 1

\* What a one-key path selects in a body: the member's value in the text
\* {"a":1,"b":2}, undefined in every other body drawn here.
SelectedValue(body, path) ==
    IF body.data = JSONText /\ path = "a" THEN NumberVal(1)
    ELSE IF body.data = JSONText /\ path = "b" THEN NumberVal(2)
    ELSE Undefined

\* C3: a JSON call with a selector leaves the full-parse cache as it was, runs
\* no full parse, returns what the selector selects in the raw body whatever
\* the cache holds, and changes nothing of the Response but the validity flag,
\* which it may only raise.
C3_SelectorLeavesCache ==
    [][SelectorJSONStep =>
          /\ res'.cachedJSON = res.cachedJSON
          /\ res'.URL = res.URL
          /\ res'.Body = res.Body
          /\ res.validatedJSON => res'.validatedJSON
          /\ parses' = parses
          /\ res.Body.type \in BodyTypes =>
                /\ last'.kind = "return"
                /\ last'.value = SelectedValue(res.Body, last'.args[1])]_vars

\* A selector call made while the cache holds the whole document.
C3_Witness ==
    /\ res.cachedJSON = JSONTextValue
    /\ last.op = "JSON" /\ last.args = <<"a">>
    /\ last.value = NumberVal(1)

(***************************************************************************)
(* Properties of SubmitForm.  The forms of Markup, read off its text: the  *)
(* selector "form" matches them all and so acts on the first, f1.          *)
(***************************************************************************)
\* The last call was SubmitForm on a body the HTML accessor accepts.
SubmitFormCalled == last.op = "SubmitForm" /\ res.Body.type \in BodyTypes

\* The last call was SubmitForm and it reached the request issuer.
SubmitFormIssued == last.op = "SubmitForm" /\ last.kind = "issued"

LastFormSelector == Option(last.args, "formSelector", "form")

\* Whether the form selector of the last call matches a form of the body.
FormMatched == res.Body.data = Markup /\ LastFormSelector # "#none"

\* Whether the form acted on has a method attribute, and its text.
FormHasMethod == LastFormSelector \in {"form", "#f1", "#f3", "#f4", "#f5", "#f6"}

FormMethod ==
    CASE LastFormSelector \in {"form", "#f1", "#f4", "#f5"} -> <<"p", "o", "s", "t">>
      [] LastFormSelector = "#f3" -> <<"G", "e", "t">>
      [] OTHER -> <<>>

\* Whether the form acted on has an action attribute, and its text.
FormHasAction == LastFormSelector \in {"form", "#f1", "#f3", "#f4", "#f5"}

FormAction ==
    CASE LastFormSelector \in {"form", "#f1"} -> <<"/", "submit">>
      [] LastFormSelector = "#f3" -> <<"/", "search", "?", "q", "=", "1">>
      [] LastFormSelector = "#f5" -> <<"%zz">>
      [] OTHER -> <<>>

\* The spellings of a method attribute that upper-case to GET.
GetSpellings ==
    {<<x, y, z>> : x \in {"g", "G"}, y \in {"e", "E"}, z \in {"t", "T"}}

\* The form acted on submits with GET: no method attribute, or one that
\* upper-cases to GET.
FormIsGet == ~FormHasMethod \/ FormMethod \in GetSpellings

\* The caller's field overrides: those of the option "fields" when it is a
\* map, none otherwise.
LastFields ==
    IF Len(last.args) > 0 /\ "fields" \in last.args[1].has
          /\ last.args[1].fields.exportable
    THEN last.args[1].fields.pairs
    ELSE {}

\* The mapping the last call had to send, from the form it selected.
LastFormValues ==
    FormValues(HTMLCall(res, <<LastFormSelector>>).sel,
               Option(last.args, "submitSelector", "[type=\"submit\"]"),
               LastFields)

\* The request the last call issued.
LastRequest == last.requests[1]

\* C4 (as amended): SubmitForm selects the form before it parses the response
\* URL: it fails with FormNotFound whenever formSelector matches no element,
\* whether or not the response URL parses, and with MalformedURL only when a
\* form is matched and the response URL or the form's action does not parse.
C4_FormSelectedBeforeURL ==
    SubmitFormCalled =>
        /\ ~FormMatched => last.kind = "throw" /\ last.err = "FormNotFound"
        /\ FormMatched /\ res.URL = URLBad =>
              last.kind = "throw" /\ last.err = "MalformedURL"
        /\ last.err = "FormNotFound" => ~FormMatched
        /\ last.err = "MalformedURL" =>
              FormMatched /\ (res.URL = URLBad \/ LastFormSelector = "#f5")

\* SubmitForm on a response whose URL does not parse, with a selector that
\* matches nothing: the failure is FormNotFound.
C4_Witness ==
    /\ SubmitFormCalled
    /\ res.URL = URLBad
    /\ ~FormMatched
    /\ last.kind = "throw" /\ last.err = "FormNotFound"

\* C4 as stated: an unparsable response URL makes SubmitForm fail with
\* MalformedURL whether or not formSelector matches, and FormNotFound is
\* raised only when the URL parses and nothing matches.
C4_URLCheckedFirst ==
    SubmitFormCalled =>
        /\ res.URL = URLBad => last.kind = "throw" /\ last.err = "MalformedURL"
        /\ last.err = "FormNotFound" => res.URL # URLBad /\ ~FormMatched

\* s without the query that follows its first "?".
WithoutQuery(s) == IF Index(s, "?") = 0 THEN s ELSE Before(s, Index(s, "?"))

\* The name=value pairs of a query string.
QueryPairs(q) == IF q = <<>> THEN {} ELSE {Split(q, "&")[i] : i \in 1..Len(Split(q, "&"))}

\* The target of a GET form without its query: the action's path on the
\* response's host when the form has an action, the response URL otherwise.
GetTargetWithoutQuery ==
    IF LastFormSelector = "#f3"
    THEN <<"http", ":", "/", "/", "host", "/", "search">>
    ELSE WithoutQuery(res.URL)

\* C5: a form that has no method attribute, or one that upper-cases to GET, is
\* submitted as one GET request with no body, to the target URL with its query
\* replaced by the encoded mapping: the query holds exactly the mapping's
\* name=value pairs and nothing of the query the target had.
C5_GetFormEncodesQuery ==
    SubmitFormIssued /\ FormIsGet =>
        /\ Len(last.requests) = 1
        /\ LastRequest.method = <<"G", "E", "T">>
        /\ LastRequest.body = Null
        /\ ~Parse(LastRequest.url).err
        /\ QueryPairs(Parse(LastRequest.url).url.RawQuery) =
              {QueryEscape(p[1]) \o <<"=">> \o QueryEscape(ValueString(p[2])) :
                  p \in LastFormValues}
        /\ WithoutQuery(LastRequest.url) = GetTargetWithoutQuery

\* A GET form whose action carries a query of its own, submitted: the action's
\* query q=1 is gone and the field x=1 is the query.
C5_Witness ==
    /\ SubmitFormIssued
    /\ LastFormSelector = "#f3"
    /\ res.URL = URLForm
    /\ LastRequest.url = <<"http", ":", "/", "/", "host", "/", "search", "?", "x", "=", "1">>
    /\ LastRequest.body = Null

\* The method a form's method attribute upper-cases to.
UpperMethod == IF FormMethod = <<>> THEN <<>> ELSE <<"P", "O", "S", "T">>

\* The action of the form acted on, resolved against the response URL.
ResolvedAction ==
    IF FormAction = <<"/", "submit">>
    THEN <<"http", ":", "/", "/", "host", "/", "submit">>
    ELSE \* the empty action: the response URL, its path's dot segments collapsed
         IF res.URL = URLDots
         THEN <<"http", ":", "/", "/", "host", "/", "b", "?", "q", "=", "1">>
         ELSE res.URL

\* C6 (as amended): a form whose method attribute upper-cases to something
\* other than GET is submitted as one request with that upper-cased method and
\* the mapping as its body, to the form's action resolved against the response
\* URL whenever the form has an action attribute, the empty one included
\* (resolving the empty reference collapses the dot segments of the response
\* URL's path), and to the response URL itself only when it has none.
C6_BodyFormRequest ==
    SubmitFormIssued /\ ~FormIsGet =>
        /\ Len(last.requests) = 1
        /\ LastRequest.method = UpperMethod
        /\ LastRequest.body = ObjectVal(LastFormValues)
        /\ LastRequest.url = IF FormHasAction THEN ResolvedAction ELSE res.URL

\* method=post, action=/submit on http://host/form with the field x=1: POST
\* http://host/submit with x=1 in the body.
C6_Witness ==
    /\ SubmitFormIssued
    /\ res.URL = URLForm
    /\ LastFormSelector = "#f1"
    /\ LastRequest.method = <<"P", "O", "S", "T">>
    /\ LastRequest.url = <<"http", ":", "/", "/", "host", "/", "submit">>
    /\ <<(<<"x">>), StringVal(<<"1">>)>> \in LastRequest.body.fields

\* C6 as stated: the target is the resolved action only when the action is
\* present and non-empty, and the response URL itself otherwise.
C6_EmptyActionIsResponseURL ==
    SubmitFormIssued /\ ~FormIsGet =>
        /\ Len(last.requests) = 1
        /\ LastRequest.method = UpperMethod
        /\ LastRequest.body = ObjectVal(LastFormValues)
        /\ LastRequest.url = IF FormHasAction /\ FormAction # <<>>
                             THEN ResolvedAction ELSE res.URL

\* The three layers of the mapping, from the form the last call selected.
LastSerialized == SerializeObject(HTMLCall(res, <<LastFormSelector>>).sel)

LastSubmit ==
    Find(HTMLCall(res, <<LastFormSelector>>).sel,
         Option(last.args, "submitSelector", "[type=\"submit\"]"))

LastSubmitDefined == Attr(LastSubmit, "name") # Undefined /\ SelVal(LastSubmit) # Undefined

\* The names of the mapping: those of any layer.
LayerNames ==
    Keys(LastSerialized) \cup Keys(LastFields)
        \cup (IF LastSubmitDefined THEN {Attr(LastSubmit, "name").str} ELSE {})

\* The value a name must carry: the caller's, else the submit control's, else
\* the serialized one.
LayerValue(n) ==
    IF HasKey(LastFields, n) THEN Get(LastFields, n)
    ELSE IF LastSubmitDefined /\ n = Attr(LastSubmit, "name").str THEN SelVal(LastSubmit)
    ELSE Get(LastSerialized, n)

\* C7: the mapping SubmitForm sends holds every name of the serialized fields,
\* of the submit control (when an element in the form matches submitSelector
\* and has both a name and a value) and of the caller's fields, each with the
\* value of the highest layer that has it: caller's fields over submit control
\* over serialized fields.
C7_LayerPrecedence ==
    SubmitFormIssued =>
        IF FormIsGet
        THEN QueryPairs(Parse(LastRequest.url).url.RawQuery) =
                {QueryEscape(n) \o <<"=">> \o QueryEscape(ValueString(LayerValue(n))) :
                    n \in LayerNames}
        ELSE LastRequest.body = ObjectVal({<<n, LayerValue(n)>> : n \in LayerNames})

\* A name in all three layers: x is serialized as 1, the submit control is
\* named x with value go, and the caller overrides x with 9.
C7_Witness ==
    /\ SubmitFormIssued
    /\ LastFormSelector = "#f2"
    /\ HasKey(LastSerialized, <<"x">>) /\ Get(LastSerialized, <<"x">>) = StringVal(<<"1">>)
    /\ LastSubmitDefined /\ Attr(LastSubmit, "name").str = <<"x">>
    /\ HasKey(LastFields, <<"x">>)
    /\ res.URL = URLForm
    /\ LastRequest.url = URLForm \o <<"?", "x", "=", "9", "&", "y", "=", "a", "+", "b">>

(***************************************************************************)
(* Properties of ClickLink.  The anchors of Markup, read off its text: l2  *)
(* comes first and has no href, l1 is the first that has one.              *)
(***************************************************************************)
LastLinkSelector == Option(last.args, "selector", "a[href]")

\* Whether the selector of the last call matches an element of the body.
LinkMatched == res.Body.data = Markup /\ LastLinkSelector # "#none"

\* Whether the first element matched has an href attribute, and its text.
LinkHasHref == LastLinkSelector \in {"a[href]", "#l1", "#l3", "#l4"}

LinkHref ==
    CASE LastLinkSelector \in {"a[href]", "#l1"} -> <<"..", "/", "c">>
      [] LastLinkSelector = "#l3" -> <<":", "bad">>
      [] LastLinkSelector = "#l4" -> <<"?", "p", "=", "2">>
      [] OTHER -> <<>>

\* C8: ClickLink fails with MalformedURL when the response URL does not parse;
\* else with ElementNotFound when the selector matches nothing; else with
\* MissingHrefAttribute when the element matched has no href; else with
\* MalformedURL when the href does not parse.  ElementNotFound is raised only
\* on an empty match and MissingHrefAttribute only on a match without href.
C8_ClickLinkFailureOrder ==
    last.op = "ClickLink" =>
        /\ res.URL = URLBad => last.kind = "throw" /\ last.err = "MalformedURL"
        /\ res.URL # URLBad /\ res.Body.type \in BodyTypes =>
              /\ ~LinkMatched => last.kind = "throw" /\ last.err = "ElementNotFound"
              /\ LinkMatched /\ ~LinkHasHref =>
                    last.kind = "throw" /\ last.err = "MissingHrefAttribute"
              /\ LinkMatched /\ LinkHasHref /\ LinkHref = <<":", "bad">> =>
                    last.kind = "throw" /\ last.err = "MalformedURL"
        /\ last.err = "ElementNotFound" => ~LinkMatched
        /\ last.err = "MissingHrefAttribute" => LinkMatched /\ ~LinkHasHref

\* An anchor that matches and has no href: MissingHrefAttribute.
C8_Witness ==
    /\ last.op = "ClickLink"
    /\ LastLinkSelector = "#l2"
    /\ LinkMatched
    /\ last.kind = "throw" /\ last.err = "MissingHrefAttribute"

\* The href of the element matched, resolved against the response URL.
ResolvedHref ==
    IF LinkHref = <<"..", "/", "c">>
    THEN <<"http", ":", "/", "/", "host", "/", "c">>
    ELSE \* the href ?p=2 keeps the path, dot segments collapsed, and sets the query
         CASE res.URL = URLForm -> URLForm \o <<"?", "p", "=", "2">>
           [] res.URL = URLAB -> URLAB \o <<"?", "p", "=", "2">>
           [] OTHER -> <<"http", ":", "/", "/", "host", "/", "b", "?", "p", "=", "2">>

\* C9: a ClickLink call that passes its checks issues one GET request without
\* a body to the href resolved against the response URL, hands the caller's
\* params on unchanged (null when there are none) and returns what the issuer
\* answered.
C9_ClickLinkRequest ==
    last.op = "ClickLink" /\ last.kind = "issued" =>
        /\ Len(last.requests) = 1
        /\ LastRequest.method = <<"G", "E", "T">>
        /\ LastRequest.body \in {Undefined, Null}
        /\ LastRequest.url = ResolvedHref
        /\ LastRequest.params =
              (IF Len(last.args) > 0 /\ "params" \in last.args[1].has
               THEN SomeParams ELSE Null)
        /\ last.issued = last.answered

\* href=../c on http://host/a/b: GET http://host/c, the issuer failing.
C9_Witness ==
    /\ last.op = "ClickLink" /\ last.kind = "issued"
    /\ res.URL = URLAB
    /\ LinkHref = <<"..", "/", "c">>
    /\ LastRequest.url = <<"http", ":", "/", "/", "host", "/", "c">>
    /\ LastRequest.params = SomeParams
    /\ last.issued = "RequestIssueFailure"

(***************************************************************************)
(* Failures of the derivers.                                               *)
(***************************************************************************)
\* The step is a SubmitForm or ClickLink call.
DeriverStep == calls' = calls + 1 /\ last'.op \in {"SubmitForm", "ClickLink"}

\* Whether the last deriver call had every check pass.
AllChecksPass ==
    /\ res.Body.type \in BodyTypes
    /\ res.URL # URLBad
    /\ IF last.op = "SubmitForm"
       THEN FormMatched /\ LastFormSelector # "#f5"
       ELSE LinkMatched /\ LinkHasHref /\ LinkHref # <<":", "bad">>

DeriverErrors ==
    {"InvalidBodyType", "MalformedURL", "FormNotFound", "ElementNotFound",
     "MissingHrefAttribute"}

\* The outcome of the last deriver call: a failure before any request, or one
\* request and the issuer's answer.
DeriverOutcome ==
    IF AllChecksPass
    THEN /\ last.kind = "issued"
         /\ Len(last.requests) = 1
         /\ last.issued = last.answered
    ELSE /\ last.kind = "throw"
         /\ last.err \in DeriverErrors
         /\ last.requests = NoRequests
         /\ last.answered = ""

\* C10: a SubmitForm or ClickLink call that fails a check ends with that
\* failure and has not invoked the request issuer; one that passes every check
\* invokes it exactly once; either way the Response's URL, body, JSON cache
\* and validity flag are after the call what they were before.
C10_FailuresBeforeAnyRequest ==
    [][DeriverStep => res' = res /\ parses' = parses /\ DeriverOutcome']_vars

\* A failed deriver call on a Response whose JSON cache is set.
C10_Witness ==
    /\ last.op \in {"SubmitForm", "ClickLink"}
    /\ last.kind = "throw" /\ last.err = "FormNotFound"
    /\ last.requests = NoRequests
    /\ res.cachedJSON # Nil
====
